---------------------------- MODULE Spec2Model ----------------------------
(***************************************************************************)
(* Model of src/refraction.py: complex_n_water_liebe93 (Liebe 1993, liquid *)
(* water) and complex_n_ice_matzler06 (Matzler 2006, water ice).           *)
(*                                                                         *)
(* Inputs are exact decimals on a 0.01 grid: a temperature is an integer   *)
(* number of centikelvin and a frequency an integer number of 0.01 GHz.    *)
(* The validity guards compare these exactly.  On this grid the double     *)
(* comparisons of the source give the same answers: 273.15 - 40 evaluates  *)
(* to 233.14999999999998, which lies strictly between 233.14 and 233.15,   *)
(* and 273.15 + 100 evaluates to the double 373.15 itself.                 *)
(*                                                                         *)
(* The arithmetic after the guards is floating point.  It is modelled by   *)
(* a decimal floating-point format with a four-digit mantissa and an       *)
(* unbounded exponent (m * 10^e), with a not-a-number value that every     *)
(* operation propagates, as IEEE doubles do.                               *)
(***************************************************************************)
EXTENDS Integers, Sequences, FiniteSets, TLC

(* The state is what a caller holds after a call: neither function keeps   *)
(* anything between calls (no module-level variable is written).           *)
VARIABLES
    called,        \* the function last called: "none", "water" or "ice"
    f_grid,        \* the frequency grid it was called with
    temperature,   \* the temperature it was called with
    outcome,       \* "none", "returned" or "raised"
    result,        \* the array the call returned
    f_grid_after,  \* the caller's frequency grid as the call left it
    divided,       \* the divisions the call evaluated
    mark           \* the caller's record of one earlier call, or of none

vars == <<called, f_grid, temperature, outcome, result, f_grid_after,
          divided, mark>>

-----------------------------------------------------------------------------
(* Floating-point numbers *)

NaN == [k |-> "nan", m |-> 0, e |-> 0]

Zero == [k |-> "num", m |-> 0, e |-> 0]

IsNaN(a) == a.k = "nan"

Abs(i) == IF i < 0 THEN -i ELSE i

Sgn(i) == IF i < 0 THEN -1 ELSE IF i = 0 THEN 0 ELSE 1

RECURSIVE Pow10(_)
Pow10(n) == IF n <= 0 THEN 1 ELSE 10 * Pow10(n - 1)

\* The mantissa is kept in 1000..9999 (four significant digits), truncating.
RECURSIVE NormAbs(_, _)
NormAbs(m, e) ==
    IF m >= 10000 THEN NormAbs(m \div 10, e + 1)
    ELSE IF m < 1000 THEN NormAbs(m * 10, e - 1)
    ELSE [k |-> "num", m |-> m, e |-> e]

Norm(m, e) ==
    IF m = 0 THEN Zero
    ELSE LET a == NormAbs(Abs(m), e)
         IN  [k |-> "num", m |-> Sgn(m) * a.m, e |-> a.e]

\* A decimal literal or an exact input: i * 10^e.
Num(i, e) == Norm(i, e)

Neg(a) == IF IsNaN(a) THEN NaN ELSE [k |-> "num", m |-> -a.m, e |-> a.e]

Add(a, b) ==
    IF IsNaN(a) \/ IsNaN(b) THEN NaN
    ELSE IF a.m = 0 THEN b
    ELSE IF b.m = 0 THEN a
    ELSE IF a.e >= b.e
         THEN IF a.e - b.e >= 5 THEN a
              ELSE Norm(a.m * Pow10(a.e - b.e) + b.m, b.e)
         ELSE IF b.e - a.e >= 5 THEN b
              ELSE Norm(b.m * Pow10(b.e - a.e) + a.m, a.e)

Sub(a, b) == Add(a, Neg(b))

Mul(a, b) ==
    IF IsNaN(a) \/ IsNaN(b) THEN NaN
    ELSE Norm(a.m * b.m, a.e + b.e)

\* x / 0 is not a finite number (numpy gives inf or nan): the model's NaN.
Div(a, b) ==
    IF IsNaN(a) \/ IsNaN(b) \/ b.m = 0 THEN NaN
    ELSE Norm(Sgn(a.m) * Sgn(b.m) * ((Abs(a.m) * 100000) \div Abs(b.m)),
              a.e - b.e - 5)

FAbs(a) == IF IsNaN(a) THEN NaN ELSE [k |-> "num", m |-> Abs(a.m), e |-> a.e]

RECURSIVE SqrtIter(_, _)
SqrtIter(n, x) ==
    LET y == (x + n \div x) \div 2
    IN  IF y >= x THEN x ELSE SqrtIter(n, y)

\* Integer square root, rounded down.
ISqrt(n) == IF n <= 0 THEN 0 ELSE SqrtIter(n, n)

\* Square root of a float; NaN for a negative argument, as for doubles.
Sqrt(a) ==
    IF IsNaN(a) \/ a.m < 0 THEN NaN
    ELSE IF a.m = 0 THEN Zero
    ELSE IF a.e % 2 = 0
         THEN Norm(ISqrt(a.m * 10000), (a.e - 4) \div 2)
         ELSE Norm(ISqrt(a.m * 100000), (a.e - 5) \div 2)

\* The float as an integer number of 10^-6, rounded toward minus infinity.
Micro(a) ==
    IF a.e + 6 >= 0 THEN a.m * Pow10(a.e + 6)
    ELSE IF a.e + 6 <= -5 THEN (IF a.m < 0 THEN -1 ELSE 0)
    ELSE a.m \div Pow10(-(a.e + 6))

\* sum of r^n / n! for n = i.., r in 10^-3, terms in 10^-4.
RECURSIVE ExpSeries(_, _, _)
ExpSeries(r, term, i) ==
    IF term = 0 \/ i > 20 THEN 0
    ELSE term + ExpSeries(r, ((term * r) \div 1000) \div i, i + 1)

\* exp(x) = 10^q * exp(r) with x = q * ln(10) + r and 0 <= r < ln(10).
Exp(a) ==
    IF IsNaN(a) THEN NaN
    ELSE LET x == Micro(a)
             q == x \div 2302585
             r == (x - q * 2302585) \div 1000
         IN  Norm(ExpSeries(r, 10000, 1), q - 4)

-----------------------------------------------------------------------------
(* Complex numbers *)

Cx(re, im) == [re |-> re, im |-> im]

CAdd(a, b) == Cx(Add(a.re, b.re), Add(a.im, b.im))

CSub(a, b) == Cx(Sub(a.re, b.re), Sub(a.im, b.im))

CDiv(a, b) ==
    LET d == Add(Mul(b.re, b.re), Mul(b.im, b.im))
    IN  Cx(Div(Add(Mul(a.re, b.re), Mul(a.im, b.im)), d),
           Div(Sub(Mul(a.im, b.re), Mul(a.re, b.im)), d))

Hypot(a, b) == Sqrt(Add(Mul(a, a), Mul(b, b)))

Half == Num(5, -1)

Two == Num(2, 0)

One == Num(1, 0)

CopySign(a, b) == IF IsNaN(a) \/ IsNaN(b) THEN NaN
                  ELSE IF b.m < 0 THEN Neg(FAbs(a)) ELSE FAbs(a)

\* CSqrt taking the other square root, the one with real part <= 0.
CSqrtOther(z) ==
    IF IsNaN(z.re) \/ IsNaN(z.im) THEN Cx(NaN, NaN)
    ELSE IF z.re.m = 0 /\ z.im.m = 0 THEN Cx(Zero, z.im)
    ELSE IF z.re.m >= 0
         THEN LET s == Sqrt(Mul(Add(z.re, Hypot(z.re, z.im)), Half))
              IN  Cx(Neg(s), Neg(Div(z.im, Mul(Two, s))))
         ELSE LET s == Sqrt(Mul(Add(Neg(z.re), Hypot(z.re, z.im)), Half))
              IN  Cx(Neg(Div(FAbs(z.im), Mul(Two, s))), Neg(CopySign(s, z.im)))

\* np.sqrt of a complex number: the principal square root, computed as
\* numpy's csqrt computes it.
CSqrt(z) ==
    IF IsNaN(z.re) \/ IsNaN(z.im) THEN Cx(NaN, NaN)
    ELSE IF z.re.m = 0 /\ z.im.m = 0 THEN Cx(Zero, z.im)
    ELSE IF z.re.m >= 0
         THEN LET s == Sqrt(Mul(Add(z.re, Hypot(z.re, z.im)), Half))
              IN  Cx(s, Div(z.im, Mul(Two, s)))
         ELSE LET s == Sqrt(Mul(Add(Neg(z.re), Hypot(z.re, z.im)), Half))
              IN  Cx(Div(FAbs(z.im), Mul(Two, s)), CopySign(s, z.im))

-----------------------------------------------------------------------------
(* Liquid water, Liebe 1993 *)

TEMP_0_C == 27315

\* A frequency (0.01 GHz) or temperature (0.01 K) as a float.
Centi(i) == Num(i, -2)

\* theta, e0, e1, f1, e2, f2 of the water model at temperature t.
WaterTerms(t) ==
    LET theta == Sub(One, Div(Num(300, 0), Centi(t)))
        e0    == Sub(Num(7766, -2), Mul(Num(1033, -1), theta))
        e1    == Mul(Num(671, -4), e0)
        f1    == Add(Add(Num(202, -1), Mul(Num(146, 0), theta)),
                     Mul(Mul(Num(316, 0), theta), theta))
        e2    == Num(352, -2)
        f2    == Mul(Num(398, -1), f1)
    IN  [theta |-> theta, e0 |-> e0, e1 |-> e1, f1 |-> f1, e2 |-> e2, f2 |-> f2]

\* The denominators (1.0) - ifGHz / f2 and (1.0) - ifGHz / f1.
WaterDen(f, fr) == CSub(Cx(One, Zero), CDiv(Cx(Zero, Centi(f)), Cx(fr, Zero)))

\* The permittivity of the water model at frequency f.
WaterEps(w, f) ==
    CAdd(CAdd(Cx(w.e2, Zero),
              CDiv(Cx(Sub(w.e1, w.e2), Zero), WaterDen(f, w.f2))),
         CDiv(Cx(Sub(w.e0, w.e1), Zero), WaterDen(f, w.f1)))

\* One pass of the loop body: the refractive index at frequency f.
WaterN(w, f) == CSqrt(WaterEps(w, f))

-----------------------------------------------------------------------------
(* Water ice, Matzler 2006 *)

B1 == Num(207, -4)

B2 == Num(116, -13)

b == Num(335, 0)

\* deltabeta, betam, alfa and reps of the ice model at temperature t.
IceTerms(t) ==
    LET T         == Centi(t)
        deltabeta == Exp(Add(Num(-9963, -3),
                             Mul(Num(372, -4), Sub(T, Num(273, 0)))))
        ebdt      == Exp(Div(b, T))
        betam     == Div(Mul(Div(B1, T), ebdt),
                         Mul(Sub(ebdt, One), Sub(ebdt, One)))
        theta     == Sub(Div(Num(300, 0), T), One)
        alfa      == Mul(Add(Num(504, -5), Mul(Num(62, -4), theta)),
                         Exp(Mul(Num(-221, -1), theta)))
        reps      == Add(Num(31884, -4), Mul(Num(91, -5), Sub(T, Num(273, 0))))
    IN  [deltabeta |-> deltabeta, ebdt |-> ebdt, betam |-> betam,
         theta |-> theta, alfa |-> alfa, reps |-> reps]

\* The permittivity of the ice model at frequency f.
IceEps(w, f) ==
    LET F    == Centi(f)
        beta == Add(Add(w.betam, Mul(Mul(B2, F), F)), w.deltabeta)
        ieps == Add(Div(w.alfa, F), Mul(beta, F))
    IN  Cx(w.reps, ieps)

\* One pass of the loop body: the refractive index at frequency f.
IceN(w, f) == CSqrt(IceEps(w, f))

-----------------------------------------------------------------------------
(* The inputs the calls are made with *)

MaxLen == 2

HistMaxLen == 1

\* Temperatures in 0.01 K: 0, 200, 233.15, 250, 273.15, 373.15 and 400 K.
WaterTemps == {0, 20000, 23315, 25000, 27315, 37315, 40000}

\* Frequencies in 0.01 GHz: 0, 5, 10, 1000 and 3000 GHz.
WaterFreqs == {0, 500, 1000, 100000, 300000}

\* Temperatures in 0.01 K: 0, 10, 20, 273, 280 and 300 K.
IceTemps == {0, 1000, 2000, 27300, 28000, 30000}

\* Frequencies in 0.01 GHz: 0, 0.01, 100, 3000 and 5000 GHz.
IceFreqs == {0, 1, 10000, 300000, 500000}

\* The frequency grids of at most n entries over F, in any order.
Grids(F, n) == UNION {[1..l -> F] : l \in 0..n}

-----------------------------------------------------------------------------
(* The divisions a call evaluates *)

SignOf(a) == IF IsNaN(a) THEN 2 ELSE Sgn(a.m)

CSignOf(z) == IF IsNaN(z.re) \/ IsNaN(z.im) THEN 2
              ELSE IF z.re.m = 0 /\ z.im.m = 0 THEN 0 ELSE 1

\* A division at a place of the source, with the sign of its divisor.
Division(site, sign) == [site |-> site, sign |-> sign]

WaterTermDivisions(t) == {Division("300 / t", Sgn(t))}

WaterRowDivisions(w, f) ==
    {Division("ifGHz / f2", SignOf(w.f2)),
     Division("(e1 - e2) / ((1.0) - ifGHz / f2)", CSignOf(WaterDen(f, w.f2))),
     Division("ifGHz / f1", SignOf(w.f1)),
     Division("(e0 - e1) / ((1.0) - ifGHz / f1)", CSignOf(WaterDen(f, w.f1)))}

IceTermDivisions(t) ==
    LET w == IceTerms(t)
    IN  {Division("b / t", Sgn(t)),
         Division("B1 / t", Sgn(t)),
         Division("ebdt / ((ebdt - 1.) * (ebdt - 1.))",
                  SignOf(Mul(Sub(w.ebdt, One), Sub(w.ebdt, One)))),
         Division("300. / t", Sgn(t))}

IceRowDivisions(f) == {Division("alfa / f", Sgn(f))}

-----------------------------------------------------------------------------
(* The two functions *)

\* One pass of the loop at temperature p[1] and frequency p[2]: the row it
\* writes and the divisions it evaluates.
WaterPass(p) ==
    LET w == WaterTerms(p[1])
    IN  [n |-> WaterN(w, p[2]), divisions |-> WaterRowDivisions(w, p[2])]

IcePass(p) ==
    [n |-> IceN(IceTerms(p[1]), p[2]), divisions |-> IceRowDivisions(p[2])]

\* The passes for each temperature and frequency in S, each computed once.
RECURSIVE WaterPasses(_)
WaterPasses(S) ==
    IF S = {} THEN <<>>
    ELSE LET p == CHOOSE q \in S : TRUE
         IN  (p :> WaterPass(p)) @@ WaterPasses(S \ {p})

RECURSIVE IcePasses(_)
IcePasses(S) ==
    IF S = {} THEN <<>>
    ELSE LET p == CHOOSE q \in S : TRUE
         IN  (p :> IcePass(p)) @@ IcePasses(S \ {p})

\* The divisions before the loop for each temperature in S.
RECURSIVE IceTermPasses(_)
IceTermPasses(S) ==
    IF S = {} THEN <<>>
    ELSE LET t == CHOOSE q \in S : TRUE
         IN  (t :> IceTermDivisions(t)) @@ IceTermPasses(S \ {t})

WaterTable == WaterPasses(WaterTemps \X WaterFreqs)

IceTable == IcePasses(IceTemps \X IceFreqs)

IceTermTable == IceTermPasses(IceTemps)

\* NanFill without the fill: np.empty hands back the memory of the array
\* returned last when the shape is the same.
NanFillStale(nf) ==
    IF Len(result) = nf THEN result ELSE [iv \in 1..nf |-> Cx(NaN, NaN)]

\* complex_n = np.empty((nf, 2)); complex_n[:] = np.nan
NanFill(nf) == [iv \in 1..nf |-> Cx(NaN, NaN)]

\* np.min and np.max of a non-empty grid.
Min(freq) == CHOOSE x \in {freq[i] : i \in 1..Len(freq)} :
                 \A i \in 1..Len(freq) : x <= freq[i]

Max(freq) == CHOOSE x \in {freq[i] : i \in 1..Len(freq)} :
                 \A i \in 1..Len(freq) : x >= freq[i]

\* The end of a call: it returned complex_n, or raised an exception.
Returned(complex_n, freq, divisions) ==
    [outcome |-> "returned", complex_n |-> complex_n, freq |-> freq,
     divisions |-> divisions]

Raised(freq, divisions) ==
    [outcome |-> "raised", complex_n |-> <<>>, freq |-> freq,
     divisions |-> divisions]

\* WaterLoop reading freq[0] in every pass.
RECURSIVE WaterLoopFirst(_, _, _, _)
WaterLoopFirst(complex_n, freq, t, iv) ==
    IF iv > Len(freq) THEN complex_n
    ELSE WaterLoopFirst([complex_n EXCEPT ![iv] = WaterTable[<<t, freq[1]>>].n],
                        freq, t, iv + 1)

\* for iv in range(nf): complex_n[iv, 0] = np.real(n); complex_n[iv, 1] = np.imag(n)
RECURSIVE WaterLoop(_, _, _, _)
WaterLoop(complex_n, freq, t, iv) ==
    IF iv > Len(freq) THEN complex_n
    ELSE WaterLoop([complex_n EXCEPT ![iv] = WaterTable[<<t, freq[iv]>>].n],
                   freq, t, iv + 1)

\* WaterTempGuard with the bounds excluded.
WaterTempGuardOpen(t) == (t <= TEMP_0_C - 4000) \/ (t >= TEMP_0_C + 10000)

WaterTempGuard(t) == (t < TEMP_0_C - 4000) \/ (t > TEMP_0_C + 10000)

\* WaterFreqGuard with "and" for "or".
WaterFreqGuardAnd(freq) == (Min(freq) < 1000) /\ (Max(freq) > 100000)

WaterFreqGuard(freq) == (Min(freq) < 1000) \/ (Max(freq) > 100000)

complex_n_water_liebe93(freq, t) ==
    LET nf == Len(freq)
        complex_n == NanFill(nf)
    IN  IF WaterTempGuard(t) THEN Returned(complex_n, freq, {})
        ELSE IF nf = 0 THEN Raised(freq, {})
        ELSE IF WaterFreqGuard(freq) THEN Returned(complex_n, freq, {})
        ELSE Returned(WaterLoop(complex_n, freq, t, 1), freq,
                      WaterTermDivisions(t) \cup
                      UNION {WaterTable[<<t, freq[iv]>>].divisions : iv \in 1..nf})

RECURSIVE IceLoop(_, _, _, _)
IceLoop(complex_n, freq, t, iv) ==
    IF iv > Len(freq) THEN complex_n
    ELSE IceLoop([complex_n EXCEPT ![iv] = IceTable[<<t, freq[iv]>>].n],
                 freq, t, iv + 1)

\* IceTempGuard without the lower bound.
IceTempGuardUpper(t) == t > 28000

IceTempGuard(t) == (t < 2000) \/ (t > 28000)

\* IceFreqGuard without the lower bound.
IceFreqGuardUpper(freq) == Max(freq) > 300000

IceFreqGuard(freq) == (Min(freq) < 1) \/ (Max(freq) > 300000)

complex_n_ice_matzler06(freq, t) ==
    LET nf == Len(freq)
        complex_n == NanFill(nf)
    IN  IF IceTempGuard(t) THEN Returned(complex_n, freq, {})
        ELSE IF nf = 0 THEN Raised(freq, {})
        ELSE IF IceFreqGuard(freq) THEN Returned(complex_n, freq, {})
        ELSE Returned(IceLoop(complex_n, freq, t, 1), freq,
                      IceTermTable[t] \cup
                      UNION {IceTable[<<t, freq[iv]>>].divisions : iv \in 1..nf})

-----------------------------------------------------------------------------
(* The state machine: a caller making one call after another *)

NoCall == [fn |-> "none"]

Init ==
    /\ called = "none"
    /\ f_grid = <<>>
    /\ temperature = 0
    /\ outcome = "none"
    /\ result = <<>>
    /\ f_grid_after = <<>>
    /\ divided = {}
    /\ mark = NoCall

\* The caller's record of the call it made last and of what came back.
LastCall ==
    IF called = "none" THEN NoCall
    ELSE [fn |-> called, freq |-> f_grid, t |-> temperature,
          outcome |-> outcome, complex_n |-> result]

\* A call of function fn with (freq, t) that ended as r.
Call(fn, freq, t, r) ==
    /\ called' = fn
    /\ f_grid' = freq
    /\ temperature' = t
    /\ outcome' = r.outcome
    /\ result' = r.complex_n
    /\ f_grid_after' = r.freq
    /\ divided' = r.divisions

WaterCall ==
    \E freq \in Grids(WaterFreqs, MaxLen), t \in WaterTemps :
        /\ Call("water", freq, t, complex_n_water_liebe93(freq, t))
        /\ UNCHANGED mark

IceCall ==
    \E freq \in Grids(IceFreqs, MaxLen), t \in IceTemps :
        /\ Call("ice", freq, t, complex_n_ice_matzler06(freq, t))
        /\ UNCHANGED mark

Next == WaterCall \/ IceCall

Spec == Init /\ [][Next]_vars

\* The same calls, by a caller that may keep its record of the call before.
HistWaterTemps == {20000, 27315}

HistWaterFreqs == {500, 1000}

HistIceTemps == {1000, 27300}

HistIceFreqs == {10000, 500000}

WaterRecall ==
    \E freq \in Grids(HistWaterFreqs, HistMaxLen), t \in HistWaterTemps :
        /\ Call("water", freq, t, complex_n_water_liebe93(freq, t))
        /\ mark' \in {mark, LastCall}

IceRecall ==
    \E freq \in Grids(HistIceFreqs, HistMaxLen), t \in HistIceTemps :
        /\ Call("ice", freq, t, complex_n_ice_matzler06(freq, t))
        /\ mark' \in {mark, LastCall}

NextHist == WaterRecall \/ IceRecall

SpecHist == Init /\ [][NextHist]_vars

-----------------------------------------------------------------------------
(* The properties *)

Rows == 1..Len(result)

NaNRow(row) == IsNaN(row.re) /\ IsNaN(row.im)

ComputedRow(row) == ~IsNaN(row.re) /\ ~IsNaN(row.im)

Freqs == {f_grid[i] : i \in 1..Len(f_grid)}

\* Every row of the returned array is the undefined sentinel.
SentinelArray ==
    /\ outcome = "returned"
    /\ Len(result) = Len(f_grid)
    /\ \A i \in Rows : NaNRow(result[i])

\* The returned array has as many rows as the grid has entries, each row a
\* (real, imaginary) pair.
RowPerFrequency ==
    /\ Len(result) = Len(f_grid)
    /\ \A i \in Rows : DOMAIN result[i] = {"re", "im"}

\* C1: a call of either function, with any grid and any temperature,
\* returns an array that has as many rows as the grid has entries, each
\* row a (real, imaginary) pair.
C1_RowCount ==
    called # "none" => (outcome = "returned" /\ RowPerFrequency)

\* Every call that does return has returned such an array: C1 fails only
\* where the call raises.
RowCountOfReturned == outcome = "returned" => RowPerFrequency

\* C2: the water function, called with a non-empty grid and a temperature
\* below 233.15 K or above 373.15 K, or a least frequency below 10 GHz, or a
\* greatest frequency above 1000 GHz, returns (does not raise) and every
\* row is NaN in both components, the rows of in-range frequencies too.
C2_WaterSentinel ==
    ( /\ called = "water"
      /\ Len(f_grid) > 0
      /\ \/ temperature < 23315
         \/ temperature > 37315
         \/ \E f \in Freqs : f < 1000
         \/ \E f \in Freqs : f > 100000 )
    => SentinelArray

\* In-range temperature, one frequency of 5 GHz beside one of 10 GHz.
C2_Witness ==
    /\ called = "water" /\ temperature = 27315
    /\ f_grid = <<1000, 500>>
    /\ SentinelArray

\* C3: the ice function, called with a non-empty grid and a temperature
\* below 20 K or above 280 K, or any frequency below 0.01 GHz or above
\* 3000 GHz, returns (does not raise) and every row is NaN in both
\* components, the rows of in-range frequencies too.
C3_IceSentinel ==
    ( /\ called = "ice"
      /\ Len(f_grid) > 0
      /\ \/ temperature < 2000
         \/ temperature > 28000
         \/ \E f \in Freqs : f < 1
         \/ \E f \in Freqs : f > 300000 )
    => SentinelArray

\* In-range temperature, one frequency of 5000 GHz beside one of 100 GHz.
C3_Witness ==
    /\ called = "ice" /\ temperature = 27300
    /\ f_grid = <<10000, 500000>>
    /\ SentinelArray

\* Every row of the returned array was computed: none is the NaN fill.
ComputedArray ==
    /\ outcome = "returned"
    /\ Len(result) = Len(f_grid)
    /\ \A i \in Rows : ComputedRow(result[i])
    /\ divided # {}

\* C4: with a non-empty grid inside the closed frequency range and a
\* temperature inside the closed temperature range, bounds included, the
\* guard does not trigger and every row is a computed value.
C4_ClosedWindow ==
    /\ ( /\ called = "water"
         /\ Len(f_grid) > 0
         /\ temperature >= 23315 /\ temperature <= 37315
         /\ \A f \in Freqs : f >= 1000 /\ f <= 100000 )
       => ComputedArray
    /\ ( /\ called = "ice"
         /\ Len(f_grid) > 0
         /\ temperature >= 2000 /\ temperature <= 28000
         /\ \A f \in Freqs : f >= 1 /\ f <= 300000 )
       => ComputedArray

\* Water at exactly 373.15 K on the grid of exactly 10 and 1000 GHz.
C4_Witness ==
    /\ called = "water" /\ temperature = 37315
    /\ f_grid = <<1000, 100000>>
    /\ ComputedArray

\* C5: a call of either function with an empty grid, at any temperature,
\* does not raise and returns an empty array.
C5_EmptyGrid ==
    (called # "none" /\ Len(f_grid) = 0) =>
        (outcome = "returned" /\ result = <<>>)

\* C6: the water function accepts only temperatures in [273.15, 373.15] K:
\* a call with a temperature below 273.15 K returns all-NaN rows.
C6_WaterZeroCelsius ==
    (called = "water" /\ Len(f_grid) > 0 /\ temperature < 27315)
    => SentinelArray

\* C7: for a grid and a temperature inside the validity window, the real
\* part of every row is >= 0.
C7_RealPart ==
    ( \/ /\ called = "water"
         /\ temperature >= 23315 /\ temperature <= 37315
         /\ \A f \in Freqs : f >= 1000 /\ f <= 100000
      \/ /\ called = "ice"
         /\ temperature >= 2000 /\ temperature <= 28000
         /\ \A f \in Freqs : f >= 1 /\ f <= 300000 )
    => \A i \in Rows : ~IsNaN(result[i].re) /\ result[i].re.m >= 0

\* An in-window call of the ice function that computed two rows.
C7_Witness ==
    /\ called = "ice" /\ temperature = 2000
    /\ f_grid = <<300000, 1>>
    /\ outcome = "returned" /\ Len(result) = 2
    /\ \A i \in Rows : result[i].re.m > 0

Apply(fn, freq, t) ==
    IF fn = "water" THEN complex_n_water_liebe93(freq, t)
    ELSE complex_n_ice_matzler06(freq, t)

GuardPassed ==
    /\ outcome = "returned" /\ Len(f_grid) > 0
    /\ IF called = "water"
       THEN ~WaterTempGuard(temperature) /\ ~WaterFreqGuard(f_grid)
       ELSE ~IceTempGuard(temperature) /\ ~IceFreqGuard(f_grid)

Perms(n) == {p \in [1..n -> 1..n] : \A i, j \in 1..n : p[i] = p[j] => i = j}

\* C9: in a call that passes the guard, row i is the row that the i-th
\* frequency gives when it is evaluated alone at the same temperature, and
\* permuting the grid permutes the rows the same way.
C9_RowsIndependent ==
    GuardPassed =>
        /\ \A i \in Rows :
              result[i] =
                  Apply(called, <<f_grid[i]>>, temperature).complex_n[1]
        /\ \A p \in Perms(Len(f_grid)) :
              Apply(called, [i \in 1..Len(f_grid) |-> f_grid[p[i]]],
                    temperature).complex_n
                  = [i \in 1..Len(f_grid) |-> result[p[i]]]

\* A grid that is not sorted, with two different rows.
C9_Witness ==
    /\ GuardPassed /\ called = "water"
    /\ Len(f_grid) = 2 /\ f_grid[1] > f_grid[2]
    /\ result[1] # result[2]

TempSites == {"300 / t", "b / t", "B1 / t", "300. / t"}

\* C10: every division a call evaluates has a divisor that is not zero; at
\* the divisions by the temperature t > 0 and at alfa / f the frequency
\* f > 0; a call with t = 0 or with a frequency 0 in the grid returns the
\* sentinel array and evaluates no division.
C10_NoDivisionByZero ==
    /\ \A d \in divided :
          /\ d.sign # 0
          /\ d.site \in TempSites \cup {"alfa / f"} => d.sign = 1
          /\ d.site \in TempSites => temperature > 0
          /\ d.site = "alfa / f" => \A f \in Freqs : f > 0
    /\ (called # "none" /\ (temperature = 0 \/ 0 \in Freqs))
       => (SentinelArray /\ divided = {})

\* An ice call at the least frequency that evaluated all its divisions.
C10_Witness ==
    /\ called = "ice" /\ 1 \in Freqs
    /\ {d.site : d \in divided} =
           {"b / t", "B1 / t", "300. / t", "alfa / f",
            "ebdt / ((ebdt - 1.) * (ebdt - 1.))"}

=============================================================================
